---------------------------- MODULE Spec2Model ----------------------------
(***************************************************************************)
(* A model of jira_handler.py: the Jira client that materializes a tree    *)
(* of epics, issues and sub-issues through the tracker's REST API.         *)
(*                                                                         *)
(* The program is sequential.  A run constructs the client, which probes   *)
(* the credentials, and then calls create_epics_and_issues once.  Its      *)
(* state is the request of the probe, the call stack of the tree           *)
(* walk (one frame per running "for" loop of create_epics_and_issues /     *)
(* create_list_of_jira_issues), the locals of the create_new_jira_issue    *)
(* call in progress, and the requests sent so far.  Every action is one    *)
(* stretch of code that ends with the next HTTP request (or with the       *)
(* return / raise of the build); the tracker's answer to a request is the  *)
(* action's input.                                                         *)
(*                                                                         *)
(* Python values: a dict is a record of its key order ("keys") and its     *)
(* values; None and a missing optional argument are the empty string (both *)
(* are falsy where the code tests them); field values are scalars, and the *)
(* lists under `issues` and `issuelinks` are kept beside the values, where *)
(* "<list>" stands for them.                                               *)
(* A wire value is [kind, val]: "plain" for a scalar v, "key" for          *)
(* {'key': v}, "name" for {'name': v}, "none" for None.                    *)
(***************************************************************************)
EXTENDS Integers, Sequences, FiniteSets, TLC

\* ------------------------------------------------------------------ bounds
\* The largest number of nodes (epics, issues, sub-issues) of an input tree.
MaxNodes == 4
\* The largest number of entries of an issue's `issuelinks` list.
MaxLinks == 2

\* ------------------------------------------------------- values and dicts
None == ""

Plain(v) == [kind |-> "plain", val |-> v]
KeyRef(v) == [kind |-> "key", val |-> v]
NameRef(v) == [kind |-> "name", val |-> v]
NoneVal == [kind |-> "none", val |-> ""]

\* issue_data = {'fields': {}}
EmptyFields == [n \in {} |-> NoneVal]

\* d[k] = v on a dict
Put(d, k, v) == [x \in (DOMAIN d) \cup {k} |-> IF x = k THEN v ELSE d[x]]

\* the set of elements of a list
Range(s) == {s[i] : i \in 1..Len(s)}

\* set(jira_issue.keys())
KeySet(issue) == Range(issue.keys)

\* jira_issue.get(name): None when the key is absent
Get(issue, name) == IF name \in KeySet(issue) THEN issue.value[name] ELSE None

\* ---------------------------------------------------------- the translator
\* transform_field_value, on a scalar field value
transform_field_value(field_value, key_type) ==
    IF key_type = "key" THEN KeyRef(field_value) ELSE NameRef(field_value)

\* the three `continue` tests at the head of the loop body
SkipField_KeepsLinks(field_name, exclude_fields) ==
    \/ field_name = "issues"
    \/ field_name \in exclude_fields

SkipField(field_name, exclude_fields) ==
    \/ field_name = "issues"
    \/ field_name \in exclude_fields
    \/ field_name = "issuelinks"

\* whether the loop body reaches the sprint branch for this field
IsSprintLookup(c, field_name) ==
    /\ field_name \notin c.key_format_fields
    /\ field_name \notin c.name_format_fields
    /\ field_name \in DOMAIN c.custom_field_mapping
    /\ field_name = "sprint"

\* the if/elif chain of the loop body: the fields map after one field
TranslateField_NameFirst(c, fields, field_name, field_value, sprint_id) ==
    IF field_name \in c.name_format_fields
    THEN Put(fields, field_name, transform_field_value(field_value, "name"))
    ELSE IF field_name \in c.key_format_fields
    THEN Put(fields, field_name, transform_field_value(field_value, "key"))
    ELSE IF field_name \in DOMAIN c.custom_field_mapping
    THEN IF field_name = "sprint"
         THEN Put(fields, c.custom_field_mapping[field_name], sprint_id)
         ELSE Put(fields, c.custom_field_mapping[field_name], Plain(field_value))
    ELSE IF field_name \in DOMAIN c.cfm_key_format_fields
    THEN Put(fields, c.cfm_key_format_fields[field_name],
             transform_field_value(field_value, "key"))
    ELSE IF field_name \in DOMAIN c.cfm_name_format_fields
    THEN Put(fields, c.cfm_name_format_fields[field_name],
             transform_field_value(field_value, "name"))
    ELSE Put(fields, field_name, Plain(field_value))

TranslateField(c, fields, field_name, field_value, sprint_id) ==
    IF field_name \in c.key_format_fields
    THEN Put(fields, field_name, transform_field_value(field_value, "key"))
    ELSE IF field_name \in c.name_format_fields
    THEN Put(fields, field_name, transform_field_value(field_value, "name"))
    ELSE IF field_name \in DOMAIN c.custom_field_mapping
    THEN IF field_name = "sprint"
         THEN Put(fields, c.custom_field_mapping[field_name], sprint_id)
         ELSE Put(fields, c.custom_field_mapping[field_name], Plain(field_value))
    ELSE IF field_name \in DOMAIN c.cfm_key_format_fields
    THEN Put(fields, c.cfm_key_format_fields[field_name],
             transform_field_value(field_value, "key"))
    ELSE IF field_name \in DOMAIN c.cfm_name_format_fields
    THEN Put(fields, c.cfm_name_format_fields[field_name],
             transform_field_value(field_value, "name"))
    ELSE Put(fields, field_name, Plain(field_value))

\* the loop of _build_issue_data from the i-th key on; sprint_id is what the
\* sprint lookup returned (used only if the sprint branch is reached)
RECURSIVE BuildFrom(_, _, _, _, _, _)
BuildFrom(c, issue, exclude_fields, sprint_id, i, fields) ==
    IF i > Len(issue.keys) THEN fields
    ELSE LET field_name == issue.keys[i]
         IN  BuildFrom(c, issue, exclude_fields, sprint_id, i + 1,
                 IF SkipField(field_name, exclude_fields) THEN fields
                 ELSE TranslateField(c, fields, field_name,
                                     issue.value[field_name], sprint_id))

\* _build_issue_data(jira_project, fields, exclude_fields)['fields']
BuildIssueData(c, issue, exclude_fields, sprint_id) ==
    BuildFrom(c, issue, exclude_fields, sprint_id, 1, EmptyFields)

\* whether _build_issue_data calls get_board_id_by_project_key / get_sprint_id
NeedsSprintLookup(c, issue, exclude_fields) ==
    \E i \in 1..Len(issue.keys) :
        /\ ~SkipField(issue.keys[i], exclude_fields)
        /\ IsSprintLookup(c, issue.keys[i])


\* ------------------------------------------------------ the lookup resolver
\* what a lookup gives when it raises RuntimeError instead of returning
Raised == "<RuntimeError>"

\* the first index of a linear scan that matches, 0 if none does
FirstOf(hits) ==
    IF hits = {} THEN 0 ELSE CHOOSE i \in hits : \A j \in hits : i <= j

\* get_project_id_by_key, on the response of GET project
get_project_id_by_key_Absent(response, project_key) ==
    LET i == FirstOf({j \in 1..Len(response) : response[j].key = project_key})
    IN  IF i = 0 THEN None ELSE response[i].id

get_project_id_by_key(response, project_key) ==
    LET i == FirstOf({j \in 1..Len(response) : response[j].key = project_key})
    IN  IF i = 0 THEN Raised ELSE response[i].id

\* get_board_id_by_project_key, on the response of GET board?projectKeyOrId=
get_board_id_by_project_key(response) ==
    IF Len(response) = 0 THEN Raised ELSE response[1].id

\* get_sprint_id, on the response of GET board/{id}/sprint: the id, or None
get_sprint_id(response, sprint_name) ==
    LET i == FirstOf({j \in 1..Len(response) : response[j].name = sprint_name})
    IN  IF i = 0 THEN NoneVal ELSE Plain(response[i].id)

\* --------------------------------------------------------- the issue creator
jira_project == "PROJ"

\* the epic / parent branch of create_new_jira_issue on the creation body
LinkToEpicOrParent_NoTypeTest(c, fields, issue, epic_key, parent_key) ==
    IF epic_key # None
    THEN Put(fields, c.custom_field_mapping["epicLink"], Plain(epic_key))
    ELSE IF parent_key # None
    THEN Put(fields, "parent", KeyRef(parent_key))
    ELSE fields

LinkToEpicOrParent(c, fields, issue, epic_key, parent_key) ==
    IF epic_key # None /\ Get(issue, "issuetype") # "Sub-task"
    THEN Put(fields, c.custom_field_mapping["epicLink"], Plain(epic_key))
    ELSE IF Get(issue, "issuetype") = "Sub-task" /\ parent_key # None
    THEN Put(fields, "parent", KeyRef(parent_key))
    ELSE fields

\* initial_issue_data['fields'] as it is sent by the creation POST
InitialIssueData(c, issue, epic_key, parent_key, sprint_id) ==
    LinkToEpicOrParent(c,
        Put(BuildIssueData(c, issue, c.post_creation_update_fields, sprint_id),
            "project", KeyRef(jira_project)),
        issue, epic_key, parent_key)

\* set(jira_issue.keys()) - set(self.post_creation_update_fields)
fields_set_during_issue_creation_Nothing(c, issue) == {}

fields_set_during_issue_creation(c, issue) ==
    KeySet(issue) \ c.post_creation_update_fields

\* link['type'].get('name', 'Related')
LinkTypeName(link) == IF link.type = None THEN "Related" ELSE link.type

\* link_data of link_jira_issues
link_data_Swapped(issue_key, issue_parent_key, link_type) ==
    [type |-> link_type, inwardIssue |-> issue_parent_key,
     outwardIssue |-> issue_key]

link_data(issue_key, issue_parent_key, link_type) ==
    [type |-> link_type, inwardIssue |-> issue_key, outwardIssue |-> issue_parent_key]

NoLink == link_data(None, None, None)

\* the link the `issuelinks` step requests: the loop only assigns its two
\* variables, and the one call after it uses what the last entry left in them
IssuelinksRequest(issue_key, issuelinks) ==
    LET link == issuelinks[Len(issuelinks)]
    IN  link_data(issue_key, link.outward, LinkTypeName(link))

\* ----------------------------------------------------------- the tree builder
\* `if issue_parent_key and issue['issuetype'] != 'Sub-task'`
ParentLinkNeeded_NoTypeTest(issue, issue_parent_key) ==
    issue_parent_key # None

ParentLinkNeeded(issue, issue_parent_key) ==
    issue_parent_key # None /\ issue.value["issuetype"] # "Sub-task"

\* issue.get('linkType', 'Related')
ParentLinkType(issue) ==
    IF "linkType" \in KeySet(issue) THEN issue.value["linkType"] ELSE "Related"

\* the frame of create_list_of_jira_issues(jira_project, epic['issues'], epic_key=epic_key)
EpicRecurseFrame_AsParent(epic, epic_key, at) ==
    [fn |-> "issues", jira_issues |-> epic.issues, i |-> 1,
     epic_key |-> None, issue_parent_key |-> epic_key, at |-> at]

EpicRecurseFrame(epic, epic_key, at) ==
    [fn |-> "issues", jira_issues |-> epic.issues, i |-> 1,
     epic_key |-> epic_key, issue_parent_key |-> None, at |-> at]

\* the frame of create_list_of_jira_issues(jira_project, issue['issues'], epic_key, issue_key)
IssueRecurseFrame(issue, epic_key, issue_key, at) ==
    [fn |-> "issues", jira_issues |-> issue.issues, i |-> 1,
     epic_key |-> epic_key, issue_parent_key |-> issue_key, at |-> at]

\* the frame of create_epics_and_issues(jira_project, epics)
EpicsFrame(epic_list) ==
    [fn |-> "epics", jira_issues |-> epic_list, i |-> 1,
     epic_key |-> None, issue_parent_key |-> None, at |-> <<>>]

\* send_request: raise_for_status() raises on a failed response and the
\* handler re-raises after logging
SendRequestRaises_Swallowed(resp) == FALSE

SendRequestRaises(resp) == resp = "error"

\* ------------------------------------------------------------------ inputs
\* a function with no key: an empty mapping table
EmptyMap == [x \in {} |-> ""]

\* one entry of an `issuelinks` list; the even ones have a type without a name
Link(i) == [type |-> IF i % 2 = 0 THEN None ELSE "Blocks",
            outward |-> "X-" \o ToString(i)]

Links(n) == [i \in 1..n |-> Link(i)]

NoDeco == [d |-> "none", n |-> 0]

\* what one node of a tree may carry beyond summary and issuetype; "all" is
\* a link type, labels and one `issuelinks` entry together
Decos == {[d |-> "linkType", n |-> 0], [d |-> "labels", n |-> 0],
          [d |-> "issues_empty", n |-> 0], [d |-> "all", n |-> 1]}
         \cup {[d |-> "issuelinks", n |-> k] : k \in 0..MaxLinks}

\* the dict of an epic ("Epic") or an issue, with its nested issues
MkNode(type, deco, sub) ==
    LET head == IF type = "Epic" THEN <<"epicName">> ELSE <<>>
        extra == CASE deco.d = "linkType" -> <<"linkType">>
                   [] deco.d = "labels" -> <<"labels">>
                   [] deco.d = "issuelinks" -> <<"issuelinks">>
                   [] deco.d = "all" -> <<"linkType", "labels", "issuelinks">>
                   [] OTHER -> <<>>
        tail == IF sub # <<>> \/ deco.d = "issues_empty" THEN <<"issues">> ELSE <<>>
        keys == head \o <<"summary", "issuetype">> \o extra \o tail
        Val(k) == CASE k = "epicName" -> "E1"
                    [] k = "summary" -> IF type = "Epic" THEN "E1" ELSE "T1"
                    [] k = "issuetype" -> type
                    [] k = "linkType" -> "Blocks"
                    [] k \in {"issues", "issuelinks"} -> "<list>"
                    [] OTHER -> "L"
    IN  [keys |-> keys,
         value |-> [k \in Range(keys) |-> Val(k)],
         issuelinks |-> IF deco.d \in {"issuelinks", "all"} THEN Links(deco.n) ELSE <<>>,
         issues |-> sub]

\* how an allowance of one decorated node (deco: a Boolean) or of Sub-tasks
\* (subs: "any", "one" or "none") splits between a node's nested issues and
\* the siblings after it
Splits(deco, subs) ==
    {[sd |-> d[1], rd |-> d[2], ss |-> u[1], rs |-> u[2]] :
        d \in IF deco THEN {<<TRUE, FALSE>>, <<FALSE, TRUE>>} ELSE {<<FALSE, FALSE>>},
        u \in IF subs = "one" THEN {<<"one", "none">>, <<"none", "one">>}
              ELSE {<<subs, subs>>}}

\* the forests of exactly n nodes, of epics if top and of issues otherwise;
\* at most one node carries a decoration, and none does unless deco; subs
\* says how many issues may be Sub-tasks
RECURSIVE ForestsOf(_, _, _, _)
ForestsOf(n, top, deco, subs) ==
    IF n = 0 THEN {<<>>}
    ELSE LET types == IF top THEN {"Epic"}
                      ELSE {"Task"} \cup (IF subs = "none" THEN {} ELSE {"Sub-task"})
             Left(t) == IF t = "Sub-task" /\ subs = "one" THEN "none" ELSE subs
             Plainly(m) ==
                 UNION {UNION {{<<MkNode(t, NoDeco, sub)>> \o rest :
                                   sub \in ForestsOf(m, FALSE, x.sd, x.ss),
                                   rest \in ForestsOf(n - 1 - m, top, x.rd, x.rs)} :
                               x \in Splits(deco, Left(t))} :
                        t \in types}
             Decorated(m) ==
                 IF ~deco THEN {}
                 ELSE UNION {UNION {{<<MkNode(t, d, sub)>> \o rest :
                                        sub \in ForestsOf(m, FALSE, FALSE, x.ss),
                                        rest \in ForestsOf(n - 1 - m, top, FALSE, x.rs)} :
                                    d \in Decos, x \in Splits(FALSE, Left(t))} :
                             t \in types}
         IN  UNION {Plainly(m) \cup Decorated(m) : m \in 0..(n - 1)}

\* the configuration of the tree runs: issuetype is name-formatted, the epic
\* name and the epic link are custom fields, labels are set after creation
TreeConfig ==
    [key_format_fields |-> {"project"},
     name_format_fields |-> {"issuetype"},
     custom_field_mapping |-> ("epicLink" :> "customfield_1") @@ ("epicName" :> "customfield_2"),
     cfm_key_format_fields |-> EmptyMap,
     cfm_name_format_fields |-> EmptyMap,
     post_creation_update_fields |-> {"labels"}]

\* the six tables a field name may be listed in
Tables == {"key", "name", "top", "ckey", "cname", "post"}

\* a configuration that lists the one name f in exactly the tables of S
FieldConfig(f, S) ==
    [key_format_fields |-> IF "key" \in S THEN {f} ELSE {},
     name_format_fields |-> IF "name" \in S THEN {f} ELSE {},
     custom_field_mapping |->
         ("epicLink" :> "customfield_1") @@ (IF "top" \in S THEN f :> ("cf_" \o f) ELSE EmptyMap),
     cfm_key_format_fields |-> IF "ckey" \in S THEN f :> ("ck_" \o f) ELSE EmptyMap,
     cfm_name_format_fields |-> IF "cname" \in S THEN f :> ("cn_" \o f) ELSE EmptyMap,
     post_creation_update_fields |-> IF "post" \in S THEN {f} ELSE {}]

\* what the tracker answers to the three lookups
Tracker(projects, boards) ==
    [projects |-> projects,
     boards |-> boards,
     sprints |-> <<[name |-> "Sprint 0", id |-> "9"], [name |-> "Sprint 1", id |-> "10"],
                   [name |-> "Sprint 1", id |-> "11"]>>]

TrackerOk ==
    Tracker(<<[key |-> "OTHER", id |-> "100"], [key |-> "PROJ", id |-> "101"]>>,
            <<[id |-> "7"], [id |-> "8"]>>)

Trackers ==
    {TrackerOk,
     Tracker(<<[key |-> "OTHER", id |-> "100"]>>, <<[id |-> "7"]>>),
     Tracker(<<[key |-> "PROJ", id |-> "101"]>>, <<>>)}

\* one epic with one Task that carries the field f
FieldInput(f, v) ==
    LET keys == <<"summary", "issuetype", f>>
        task == [keys |-> keys,
                 value |-> [k \in Range(keys) |->
                               CASE k = "summary" -> "T1" [] k = "issuetype" -> "Task"
                                 [] k \in {"issues", "issuelinks"} -> "<list>"
                                 [] OTHER -> v],
                 issuelinks |-> IF f = "issuelinks" THEN Links(1) ELSE <<>>,
                 issues |-> IF f = "issues" THEN <<MkNode("Task", NoDeco, <<>>)>> ELSE <<>>]
    IN  <<MkNode("Epic", NoDeco, <<task>>)>>

\* the runs on trees: the forests of up to MaxNodes nodes, with any number of
\* Sub-tasks and no decoration, or with one decorated node and one Sub-task
TreeRuns ==
    {[cfg |-> TreeConfig, epics |-> f, tracker |-> TrackerOk] :
        f \in UNION {ForestsOf(n, TRUE, FALSE, "any") \cup ForestsOf(n, TRUE, TRUE, "one") :
                     n \in 1..MaxNodes}}

\* the runs on one field: every name, every combination of tables
FieldRuns ==
    {[cfg |-> FieldConfig(f, S), epics |-> FieldInput(f, "L"), tracker |-> TrackerOk] :
        f \in {"labels", "issuelinks", "issues"}, S \in SUBSET Tables}
    \cup
    {[cfg |-> FieldConfig("sprint", S), epics |-> FieldInput("sprint", v), tracker |-> t] :
        S \in SUBSET Tables, v \in {"Sprint 1", "Sprint 9"}, t \in Trackers}

Runs == TreeRuns \cup FieldRuns

\* ------------------------------------------------------------------- state
VARIABLES
    cfg,            \* the special-fields configuration of the client
    epics,          \* the argument of create_epics_and_issues
    tracker,        \* what the tracker answers to lookups
    stack,          \* the running loops of the tree walk, innermost last
    pc,             \* where the code stands
    phase,          \* which _build_issue_data call is running: "create" or "update"
    exclude_fields, \* its exclude_fields argument
    issue_data,     \* the fields map it returned last (with project and links, in "create")
    project_id,     \* local of get_board_id_by_project_key
    issue_key,      \* local of create_new_jira_issue: the key the tracker returned
    created,        \* how many issues the tracker has created
    calls,          \* the requests sent so far, in order
    err,            \* the exception that ended the run, None if none
    probes          \* the requests _validate_credentials made, in order

vars == <<cfg, epics, tracker, stack, pc, phase, exclude_fields, issue_data,
          project_id, issue_key, created, calls, err, probes>>

inputs == <<cfg, epics, tracker>>

Top == stack[Len(stack)]
\* the dict the loop variable holds
CurIssue == Top.jira_issues[Top.i]
\* where that dict stands in the input: its index path from the epics list
CurNode == Top.at \o <<Top.i>>

\* one request as send_request sends it; `node` and `site` record which node
\* of the input and which call site of the code it comes from
Request(method, api_type, key, fields, link, resp, site) ==
    [method |-> method, api_type |-> api_type, issue_key |-> key,
     fields |-> fields, link |-> link, ok |-> (resp # "error"),
     node |-> CurNode, site |-> site]

Send(req) == calls' = Append(calls, req)

Raise(e) == pc' = "raised" /\ err' = e

\* the key the tracker gives to the n-th issue it creates
KeyOf(n) == "K-" \o ToString(n)

\* _build_issue_data has returned: what the caller does up to its next request
AfterBuild(ph, issue, excl, sprint_id) ==
    IF ph = "create"
    THEN /\ issue_data' = InitialIssueData(cfg, issue, Top.epic_key,
                                           Top.issue_parent_key, sprint_id)
         /\ pc' = "post"
    ELSE LET update_data == BuildIssueData(cfg, issue, excl, sprint_id)
         IN  /\ issue_data' = update_data
             /\ pc' = IF DOMAIN update_data # {} THEN "put" ELSE "links"

\* a call of _build_issue_data, up to its first request or its return
EnterBuild(ph, issue, excl) ==
    /\ phase' = ph
    /\ exclude_fields' = excl
    /\ IF NeedsSprintLookup(cfg, issue, excl)
       THEN pc' = "get_project" /\ issue_data' = EmptyFields
       ELSE AfterBuild(ph, issue, excl, NoneVal)

\* _validate_credentials: the status test, as it lets the constructor return
CredentialsValid_AnySuccess(status_code) == status_code \in 200..299

CredentialsValid(status_code) == status_code = 200

\* the request of _validate_credentials and how the tracker took it
ProbeRequest(answered, status_code) ==
    [method |-> "GET", api_type |-> "myself", answered |-> answered,
     status_code |-> status_code]

Init ==
    /\ \E run \in Runs :
          /\ cfg = run.cfg
          /\ epics = run.epics
          /\ tracker = run.tracker
    /\ stack = <<>>
    /\ pc = "init"
    /\ phase = "create"
    /\ exclude_fields = {}
    /\ issue_data = EmptyFields
    /\ project_id = None
    /\ issue_key = None
    /\ created = 0
    /\ calls = <<>>
    /\ err = None
    /\ probes = <<>>

\* ----------------------------------------------------------------- actions
\* Jira(...): __init__ keeps the configuration and runs
\* _validate_credentials, which makes one GET of "myself" with requests.get
\* (not through send_request) and raises unless the status code is 200; no
\* answer at all is the exception of requests.get, which nothing catches
Construct ==
    /\ pc = "init"
    /\ \E answered \in BOOLEAN :
       \E status_code \in IF answered THEN {200, 204, 401} ELSE {0} :
          /\ probes' = Append(probes, ProbeRequest(answered, status_code))
          /\ IF ~answered THEN Raise("ConnectionError")
             ELSE IF CredentialsValid(status_code)
                  THEN pc' = "ready" /\ err' = err
                  ELSE Raise("RuntimeError: credentials")
    /\ UNCHANGED <<inputs, stack, phase, exclude_fields, issue_data, project_id,
                   issue_key, created, calls>>

\* the caller of the constructed client calls create_epics_and_issues
StartBuild ==
    /\ pc = "ready"
    /\ stack' = <<EpicsFrame(epics)>>
    /\ pc' = "loop"
    /\ UNCHANGED <<inputs, probes, phase, exclude_fields, issue_data, project_id,
                   issue_key, created, calls, err>>

\* create_epics_and_issues: the next epic; create_new_jira_issue is entered
\* with no epic key and no parent key
NextEpic ==
    /\ pc = "loop" /\ Top.fn = "epics" /\ Top.i <= Len(Top.jira_issues)
    /\ EnterBuild("create", CurIssue, cfg.post_creation_update_fields)
    /\ issue_key' = None
    /\ UNCHANGED <<inputs, probes, stack, project_id, created, calls, err>>

\* create_list_of_jira_issues: the next issue of the list
NextIssue ==
    /\ pc = "loop" /\ Top.fn = "issues" /\ Top.i <= Len(Top.jira_issues)
    /\ EnterBuild("create", CurIssue, cfg.post_creation_update_fields)
    /\ issue_key' = None
    /\ UNCHANGED <<inputs, probes, stack, project_id, created, calls, err>>

\* get_project_id_by_key: GET project, then the scan for the project key
GetProject ==
    /\ pc = "get_project"
    /\ \E resp \in {"ok", "error"} :
          /\ Send(Request("get", "project", None, EmptyFields, NoLink, resp, "lookup"))
          /\ IF SendRequestRaises(resp)
             THEN Raise("RequestException") /\ UNCHANGED project_id
             ELSE LET id == get_project_id_by_key(tracker.projects, jira_project)
                  IN  IF id = Raised
                      THEN Raise("RuntimeError: project") /\ UNCHANGED project_id
                      ELSE project_id' = id /\ pc' = "get_boards" /\ UNCHANGED err
    /\ UNCHANGED <<inputs, probes, stack, phase, exclude_fields, issue_data, issue_key, created>>

\* get_board_id_by_project_key: GET the project's boards, the first one's id
\* is the board; then get_sprint_id is entered
GetBoards ==
    /\ pc = "get_boards"
    /\ \E resp \in {"ok", "error"} :
          /\ Send(Request("get", "board", project_id, EmptyFields, NoLink, resp, "lookup"))
          /\ IF SendRequestRaises(resp)
             THEN Raise("RequestException")
             ELSE IF get_board_id_by_project_key(tracker.boards) = Raised
                  THEN Raise("RuntimeError: board")
                  ELSE pc' = "get_sprints" /\ UNCHANGED err
    /\ UNCHANGED <<inputs, probes, stack, phase, exclude_fields, issue_data, project_id,
                   issue_key, created>>

\* get_sprint_id: GET the board's sprints, the scan for the sprint name; the
\* id or None goes under the mapped field and _build_issue_data returns
GetSprints ==
    /\ pc = "get_sprints"
    /\ \E resp \in {"ok", "error"} :
          /\ Send(Request("get", "sprint", get_board_id_by_project_key(tracker.boards),
                          EmptyFields, NoLink, resp, "lookup"))
          /\ IF SendRequestRaises(resp)
             THEN Raise("RequestException") /\ UNCHANGED issue_data
             ELSE /\ AfterBuild(phase, CurIssue, exclude_fields,
                                get_sprint_id(tracker.sprints, CurIssue.value["sprint"]))
                  /\ UNCHANGED err
    /\ UNCHANGED <<inputs, probes, stack, phase, exclude_fields, project_id, issue_key, created>>

\* create_new_jira_issue: the creation POST, the key of the response, and the
\* update-phase call of _build_issue_data
PostIssue ==
    /\ pc = "post"
    /\ \E resp \in {"ok", "error", "nokey"} :
          /\ Send(Request("post", "issue", None, issue_data, NoLink, resp, "create"))
          /\ IF SendRequestRaises(resp)
             THEN /\ Raise("RequestException")
                  /\ UNCHANGED <<phase, exclude_fields, issue_data, issue_key, created>>
             ELSE IF resp = "nokey"
             THEN /\ Raise("ValueError")
                  /\ UNCHANGED <<phase, exclude_fields, issue_data, issue_key, created>>
             ELSE /\ created' = created + 1
                  /\ issue_key' = KeyOf(created + 1)
                  /\ EnterBuild("update", CurIssue,
                                fields_set_during_issue_creation(cfg, CurIssue))
                  /\ UNCHANGED err
    /\ UNCHANGED <<inputs, probes, stack, project_id>>

\* create_new_jira_issue: the update PUT of the post-creation fields
PutIssue ==
    /\ pc = "put"
    /\ \E resp \in {"ok", "error"} :
          /\ Send(Request("put", "issue", issue_key, issue_data, NoLink, resp, "update"))
          /\ IF SendRequestRaises(resp)
             THEN Raise("RequestException")
             ELSE pc' = "links" /\ UNCHANGED err
    /\ UNCHANGED <<inputs, probes, stack, phase, exclude_fields, issue_data, project_id,
                   issue_key, created>>

\* create_new_jira_issue: a spec without `issuelinks` returns the response
ReturnCreated ==
    /\ pc = "links"
    /\ "issuelinks" \notin KeySet(CurIssue)
    /\ pc' = "created"
    /\ UNCHANGED <<inputs, probes, stack, phase, exclude_fields, issue_data, project_id,
                   issue_key, created, calls, err>>

\* create_new_jira_issue: the `issuelinks` step.  The loop binds link_type and
\* issue_parent_key; the statements after it read them, which raises
\* UnboundLocalError when the list is empty, and link once otherwise
LinkIssuelinks ==
    /\ pc = "links"
    /\ "issuelinks" \in KeySet(CurIssue)
    /\ IF Len(CurIssue.issuelinks) = 0
       THEN Raise("UnboundLocalError") /\ UNCHANGED calls
       ELSE \E resp \in {"ok", "error"} :
               /\ Send(Request("post", "issueLink", None, EmptyFields,
                               IssuelinksRequest(issue_key, CurIssue.issuelinks),
                               resp, "issuelinks"))
               /\ IF SendRequestRaises(resp)
                  THEN Raise("RequestException")
                  ELSE pc' = "created" /\ UNCHANGED err
    /\ UNCHANGED <<inputs, probes, stack, phase, exclude_fields, issue_data, project_id,
                   issue_key, created>>

\* create_list_of_jira_issues: the link of a child issue to its parent issue
LinkParent ==
    /\ pc = "created" /\ Top.fn = "issues"
    /\ ParentLinkNeeded(CurIssue, Top.issue_parent_key)
    /\ \E resp \in {"ok", "error"} :
          /\ Send(Request("post", "issueLink", None, EmptyFields,
                          link_data(issue_key, Top.issue_parent_key, ParentLinkType(CurIssue)),
                          resp, "parent"))
          /\ IF SendRequestRaises(resp)
             THEN Raise("RequestException")
             ELSE pc' = "recurse" /\ UNCHANGED err
    /\ UNCHANGED <<inputs, probes, stack, phase, exclude_fields, issue_data, project_id,
                   issue_key, created>>

\* create_list_of_jira_issues: no link for a Sub-task or a child of the epic
SkipParentLink ==
    /\ pc = "created" /\ Top.fn = "issues"
    /\ ~ParentLinkNeeded(CurIssue, Top.issue_parent_key)
    /\ pc' = "recurse"
    /\ UNCHANGED <<inputs, probes, stack, phase, exclude_fields, issue_data, project_id,
                   issue_key, created, calls, err>>

\* create_epics_and_issues: the epic's key is taken; no link is made
EpicCreated ==
    /\ pc = "created" /\ Top.fn = "epics"
    /\ pc' = "recurse"
    /\ UNCHANGED <<inputs, probes, stack, phase, exclude_fields, issue_data, project_id,
                   issue_key, created, calls, err>>

\* `if 'issues' in issue`: the recursive call on the nested list
Recurse ==
    /\ pc = "recurse"
    /\ "issues" \in KeySet(CurIssue)
    /\ stack' = Append(stack,
                    IF Top.fn = "epics"
                    THEN EpicRecurseFrame(CurIssue, issue_key, CurNode)
                    ELSE IssueRecurseFrame(CurIssue, Top.epic_key, issue_key, CurNode))
    /\ pc' = "loop"
    /\ UNCHANGED <<inputs, probes, phase, exclude_fields, issue_data, project_id,
                   issue_key, created, calls, err>>

\* no nested list: the loop goes on to the next element
NextInList ==
    /\ pc = "recurse"
    /\ "issues" \notin KeySet(CurIssue)
    /\ stack' = [stack EXCEPT ![Len(stack)].i = @ + 1]
    /\ pc' = "loop"
    /\ UNCHANGED <<inputs, probes, phase, exclude_fields, issue_data, project_id,
                   issue_key, created, calls, err>>

\* the list is exhausted: create_list_of_jira_issues returns to the loop that
\* called it, which goes on to its next element
ReturnFromList ==
    /\ pc = "loop" /\ Top.i > Len(Top.jira_issues) /\ Len(stack) > 1
    /\ stack' = [SubSeq(stack, 1, Len(stack) - 1) EXCEPT ![Len(stack) - 1].i = @ + 1]
    /\ pc' = "loop"
    /\ UNCHANGED <<inputs, probes, phase, exclude_fields, issue_data, project_id,
                   issue_key, created, calls, err>>

\* the epics are exhausted: create_epics_and_issues returns
Finish ==
    /\ pc = "loop" /\ Top.i > Len(Top.jira_issues) /\ Len(stack) = 1
    /\ pc' = "done"
    /\ UNCHANGED <<inputs, probes, stack, phase, exclude_fields, issue_data, project_id,
                   issue_key, created, calls, err>>

Next ==
    \/ Construct \/ StartBuild
    \/ NextEpic \/ NextIssue
    \/ GetProject \/ GetBoards \/ GetSprints
    \/ PostIssue \/ PutIssue
    \/ ReturnCreated \/ LinkIssuelinks
    \/ LinkParent \/ SkipParentLink \/ EpicCreated
    \/ Recurse \/ NextInList \/ ReturnFromList
    \/ Finish

Spec == Init /\ [][Next]_vars

\* ------------------------------------------------ reading the request log
\* the dict at an index path of a forest
RECURSIVE NodeIn(_, _)
NodeIn(forest, path) ==
    IF Len(path) = 1 THEN forest[path[1]]
    ELSE NodeIn(forest[path[1]].issues, Tail(path))

\* the index paths of a forest in pre-order, depth first, in list order
RECURSIVE PreorderFrom(_, _, _)
PreorderFrom(forest, at, i) ==
    IF i > Len(forest) THEN <<>>
    ELSE <<at \o <<i>>>> \o PreorderFrom(forest[i].issues, at \o <<i>>, 1)
         \o PreorderFrom(forest, at, i + 1)

Preorder(forest) == PreorderFrom(forest, <<>>, 1)

Parent(path) == SubSeq(path, 1, Len(path) - 1)

IsCreation(c) == c.site = "create"

\* the nodes of the creation POSTs, in the order they were sent
CreatedNodes == [i \in 1..Len(SelectSeq(calls, IsCreation)) |->
                    SelectSeq(calls, IsCreation)[i].node]

\* the positions in the log of the calls of one call site for one node
CallsOf(site, node) ==
    {i \in 1..Len(calls) : calls[i].site = site /\ calls[i].node = node}

\* nothing the build asked of the tracker failed: every request got a
\* successful response, every lookup found its object, every creation a key
NoCallFailed ==
    /\ \A i \in 1..Len(calls) : calls[i].ok
    /\ err \notin {"RequestException", "ValueError",
                   "RuntimeError: project", "RuntimeError: board",
                   "RuntimeError: credentials", "ConnectionError"}

\* the last request sent comes from the node the loop stands on
AtLastCall(site) ==
    /\ calls # <<>>
    /\ calls[Len(calls)].site = site
    /\ calls[Len(calls)].node = CurNode

\* ------------------------------------------------------------------ claims

\* C1: when no call fails, the creation POSTs of a finished build are exactly
\* the pre-order depth-first traversal of the input tree, each node once.
C1_PreorderCreation ==
    (pc \in {"done", "raised"} /\ NoCallFailed) => CreatedNodes = Preorder(epics)

\* the fields of a spec that the configuration defers to the update PUT
Deferred(issue) == KeySet(issue) \cap cfg.post_creation_update_fields

Structural == {"issues", "issuelinks"}

\* the wire names under which the configuration can send the field f
WireNames(f) ==
    {f} \cup (IF f \in DOMAIN cfg.custom_field_mapping
              THEN {cfg.custom_field_mapping[f]} ELSE {})
        \cup (IF f \in DOMAIN cfg.cfm_key_format_fields
              THEN {cfg.cfm_key_format_fields[f]} ELSE {})
        \cup (IF f \in DOMAIN cfg.cfm_name_format_fields
              THEN {cfg.cfm_name_format_fields[f]} ELSE {})

Carries(fields, f) == WireNames(f) \cap DOMAIN fields # {}

\* the split of a spec's fields between the creation POST and the update PUT,
\* for the deferred fields other than `unsent`, once the update phase of the
\* node is over
SplitHolds(unsent) ==
    /\ \A i \in 1..Len(calls) :
          calls[i].site = "create" =>
             \A f \in Deferred(NodeIn(epics, calls[i].node)) : ~Carries(calls[i].fields, f)
    /\ \A i \in 1..Len(calls) :
          calls[i].site = "update" =>
             LET issue == NodeIn(epics, calls[i].node)
             IN  /\ \A f \in Deferred(issue) \ unsent : Carries(calls[i].fields, f)
                 /\ \A f \in KeySet(issue) \ Deferred(issue) : ~Carries(calls[i].fields, f)
    /\ pc = "links" =>
          /\ Deferred(CurIssue) \ unsent # {} => CallsOf("update", CurNode) # {}
          /\ Deferred(CurIssue) \ unsent = {} => CallsOf("update", CurNode) = {}

\* C2 as stated: every field named in postCreationUpdateFields is absent from
\* the creation POST and present in the update PUT, every other field is absent
\* from the PUT, and there is no PUT when the spec has no deferred field.
C2_DeferredFieldsSplit_Original == SplitHolds({})

DeferredFields(issue) == Deferred(issue) \ Structural

\* C2, amended: the same for every deferred field other than the structural
\* keys `issues` and `issuelinks`, which are in neither body; there is no PUT
\* when the spec has no deferred field other than these.
C2_DeferredFieldsSplit == SplitHolds(Structural)

C2_Witness ==
    /\ pc = "links"
    /\ CallsOf("update", CurNode) # {}
    /\ DeferredFields(CurIssue) # {}
    /\ \E i \in CallsOf("create", CurNode) : Carries(calls[i].fields, "summary")

\* the link calls of the `issuelinks` step of the node the loop stands on
IssuelinksCalls ==
    LET IsMine(c) == c.site = "issuelinks" /\ c.node = CurNode
        mine == SelectSeq(calls, IsMine)
    IN  [i \in 1..Len(mine) |-> mine[i].link]

\* C3: an `issuelinks` list of n entries causes exactly n link calls, one per
\* entry in list order with that entry's outward key and type name, and with
\* n = 0 no call is made and create_new_jira_issue returns normally.
C3_LinksEveryEntry ==
    /\ err # "UnboundLocalError"
    /\ (pc = "created" /\ "issuelinks" \in KeySet(CurIssue)) =>
          IssuelinksCalls =
             [i \in 1..Len(CurIssue.issuelinks) |->
                 link_data(issue_key, CurIssue.issuelinks[i].outward,
                           LinkTypeName(CurIssue.issuelinks[i]))]

\* C4: the creation POST carries the epic-link field, set to the epic key,
\* exactly when an epic key is given and the issue is no Sub-task; it carries
\* parent = {key: parent key} exactly when the issue is a Sub-task and a
\* parent key is given; never both; and an epic carries neither.
C4_EpicLinkOrParent ==
    AtLastCall("create") =>
       LET body == calls[Len(calls)].fields
           epicLink == cfg.custom_field_mapping["epicLink"]
           subtask == Get(CurIssue, "issuetype") = "Sub-task"
       IN  /\ epicLink \in DOMAIN body <=> (Top.epic_key # None /\ ~subtask)
           /\ epicLink \in DOMAIN body => body[epicLink] = Plain(Top.epic_key)
           /\ "parent" \in DOMAIN body <=> (subtask /\ Top.issue_parent_key # None)
           /\ "parent" \in DOMAIN body => body["parent"] = KeyRef(Top.issue_parent_key)
           /\ ~(epicLink \in DOMAIN body /\ "parent" \in DOMAIN body)
           /\ Top.fn = "epics" => (epicLink \notin DOMAIN body /\ "parent" \notin DOMAIN body)
           /\ Len(CurNode) = 1 <=> Top.fn = "epics"

C4_Witness ==
    /\ AtLastCall("create")
    /\ Get(CurIssue, "issuetype") = "Sub-task"
    /\ Top.epic_key # None /\ Top.issue_parent_key # None
    /\ "parent" \in DOMAIN calls[Len(calls)].fields

\* C5: no body sent to the issue endpoint, by the creation POST or by the
\* update PUT, has `issues` or `issuelinks` among the keys of its fields map.
C5_NoStructuralKeys ==
    \A i \in 1..Len(calls) :
        calls[i].api_type = "issue" => DOMAIN calls[i].fields \cap Structural = {}

C5_Witness ==
    /\ pc = "links"
    /\ "issuelinks" \in KeySet(CurIssue)
    /\ "issuelinks" \in cfg.post_creation_update_fields
    /\ "issuelinks" \in cfg.key_format_fields
    /\ CallsOf("create", CurNode) # {}

\* C6: a failing call aborts the build at once: the failed request is the
\* last request ever sent (nothing is retried, nothing is undone), and the
\* error reaches the caller of create_epics_and_issues.
C6_AbortOnFailure ==
    [][/\ err = None
       /\ \A i \in 1..Len(calls) : calls[i].ok
       /\ (\E i \in 1..Len(calls') : ~calls'[i].ok) =>
             (pc' = "raised" /\ err' = "RequestException")
       /\ err' # None => pc' = "raised"]_vars

C6_Witness ==
    /\ pc = "raised" /\ err = "RequestException"
    /\ created >= 2
    /\ ~calls[Len(calls)].ok
    /\ calls[Len(calls)].site = "update"

\* the link call create_list_of_jira_issues owes the node at `path`
OwesParentLink(path) ==
    /\ Len(path) >= 3
    /\ NodeIn(epics, path).value["issuetype"] # "Sub-task"

\* C7: the new issue is linked to its parent issue, with link type linkType
\* or 'Related', exactly when a parent key is given and the issue is no
\* Sub-task; a Sub-task and a direct child of an epic cause no such call; the
\* call comes after the issue's creation and before that of its nested issues.
C7_ParentLink ==
    /\ \A i \in 1..Len(calls) :
          calls[i].site = "parent" =>
             LET path == calls[i].node
                 issue == NodeIn(epics, path)
             IN  /\ OwesParentLink(path)
                 /\ CallsOf("parent", path) = {i}
                 /\ \E j \in CallsOf("create", path) : j < i
                 /\ \E j \in CallsOf("create", Parent(path)) :
                       calls[i].link.outwardIssue = KeyOf(Cardinality(
                           {k \in 1..j : calls[k].site = "create" /\ calls[k].ok}))
                 /\ calls[i].link.type =
                       (IF "linkType" \in KeySet(issue) THEN issue.value["linkType"]
                        ELSE "Related")
    /\ \A j \in 1..Len(calls) :
          (calls[j].site = "create" /\ Len(calls[j].node) >= 2
              /\ OwesParentLink(Parent(calls[j].node))) =>
             \E i \in CallsOf("parent", Parent(calls[j].node)) : i < j /\ calls[i].ok
    /\ (pc = "recurse" /\ Top.fn = "issues") =>
          /\ Top.issue_parent_key # None <=> Len(CurNode) >= 3
          /\ OwesParentLink(CurNode) <=> CallsOf("parent", CurNode) # {}
          /\ \A i \in CallsOf("parent", CurNode) :
                calls[i].link = link_data(issue_key, Top.issue_parent_key,
                                          calls[i].link.type)

C7_Witness ==
    \E i, j \in 1..Len(calls) :
        /\ i < j
        /\ calls[i].site = "parent" /\ calls[i].link.type = "Blocks"
        /\ calls[j].site = "create" /\ Parent(calls[j].node) = calls[i].node

\* the end-to-end input: one epic with one nested Task
Scenario == <<MkNode("Epic", NoDeco, <<MkNode("Task", NoDeco, <<>>)>>)>>

SetsEpicLink(c, epic_key) ==
    /\ cfg.custom_field_mapping["epicLink"] \in DOMAIN c.fields
    /\ c.fields[cfg.custom_field_mapping["epicLink"]] = Plain(epic_key)

\* the two creation calls of the scenario: the epic, then the task
ScenarioCreations ==
    /\ Len(SelectSeq(calls, IsCreation)) = 2
    /\ CreatedNodes = <<<<1>>, <<1, 1>>>>

\* C8 as stated: the scenario results in exactly two creation calls (epic,
\* then task) and one additional call that sets the epic-link field on the
\* task to the epic's returned key.
C8_Scenario_Original ==
    (epics = Scenario /\ cfg = TreeConfig /\ pc = "done") =>
       /\ ScenarioCreations
       /\ \E i \in 1..Len(calls) : ~IsCreation(calls[i]) /\ SetsEpicLink(calls[i], KeyOf(1))

\* C8, amended: the scenario (none of its fields being a post-creation field)
\* results in exactly two calls, the creation of the epic and then of the
\* task, and the task's creation call itself sets the epic-link field to the
\* epic's returned key; there is no additional call.
C8_Scenario ==
    (epics = Scenario /\ cfg = TreeConfig /\ pc = "done") =>
       /\ ScenarioCreations
       /\ Len(calls) = 2
       /\ ~SetsEpicLink(calls[1], KeyOf(1))
       /\ SetsEpicLink(calls[2], KeyOf(1))

C8_Witness ==
    /\ epics = Scenario /\ cfg = TreeConfig /\ pc = "done"
    /\ err = None /\ created = 2

\* a call of _build_issue_data has returned and issue_data holds its result
BuildReturned == pc \in {"post", "put", "links"}

\* the rules of the translator that match the field name k, by their rank in
\* the fixed order; the last one matches every name
MatchingRules(k) ==
    {7} \cup (IF k \in Structural \/ k \in exclude_fields THEN {1} ELSE {})
        \cup (IF k \in cfg.key_format_fields THEN {2} ELSE {})
        \cup (IF k \in cfg.name_format_fields THEN {3} ELSE {})
        \cup (IF k \in DOMAIN cfg.custom_field_mapping THEN {4} ELSE {})
        \cup (IF k \in DOMAIN cfg.cfm_key_format_fields THEN {5} ELSE {})
        \cup (IF k \in DOMAIN cfg.cfm_name_format_fields THEN {6} ELSE {})

FirstRule(k) == CHOOSE r \in MatchingRules(k) : \A q \in MatchingRules(k) : r <= q

\* the field k is in the result under the one wire name `name`, with value w
OnlyUnder(k, name, w) ==
    /\ WireNames(k) \cap DOMAIN issue_data = {name}
    /\ issue_data[name] = w

\* the id the board gives for a sprint name: that of its first sprint of that
\* exact name, None if it has none
IsSprintIdOf(w, sprint_name) ==
    LET named == {i \in 1..Len(tracker.sprints) : tracker.sprints[i].name = sprint_name}
    IN  IF named = {} THEN w = NoneVal
        ELSE \E i \in named : /\ \A j \in named : i <= j
                              /\ w = Plain(tracker.sprints[i].id)

\* the result of the first matching rule for the field k; `verbatim` says
\* whether rule 4 copies the value of the field named sprint as it is
FirstRuleResult(k, verbatim) ==
    LET r == FirstRule(k)
        v == CurIssue.value[k]
    IN  CASE r = 1 -> WireNames(k) \cap DOMAIN issue_data = {}
          [] r = 2 -> OnlyUnder(k, k, KeyRef(v))
          [] r = 3 -> OnlyUnder(k, k, NameRef(v))
          [] r = 4 -> IF k = "sprint" /\ ~verbatim
                      THEN /\ WireNames(k) \cap DOMAIN issue_data = {cfg.custom_field_mapping[k]}
                           /\ IsSprintIdOf(issue_data[cfg.custom_field_mapping[k]], v)
                      ELSE OnlyUnder(k, cfg.custom_field_mapping[k], Plain(v))
          [] r = 5 -> OnlyUnder(k, cfg.cfm_key_format_fields[k], KeyRef(v))
          [] r = 6 -> OnlyUnder(k, cfg.cfm_name_format_fields[k], NameRef(v))
          [] OTHER -> OnlyUnder(k, k, Plain(v))

\* C9 as stated: for every field name, scalar value and configuration of the
\* tables, _build_issue_data gives the result of the first matching rule:
\* skipped; {key: v}; {name: v}; v under the mapped id; {key: v} under the
\* mapped id; {name: v} under the mapped id; v under its own name.
C9_FirstMatchWins_Original ==
    BuildReturned => \A k \in KeySet(CurIssue) : FirstRuleResult(k, TRUE)

\* C9, amended: the same, except that for the field named sprint the top-level
\* customFieldMapping rule puts under the mapped id the sprint id the lookup
\* resolved for the value (None when the board has no sprint of that name).
C9_FirstMatchWins ==
    BuildReturned => \A k \in KeySet(CurIssue) : FirstRuleResult(k, FALSE)

C9_Witness ==
    /\ pc = "post"
    /\ \E k \in KeySet(CurIssue) :
          /\ {2, 3, 4} \subseteq MatchingRules(k)
          /\ FirstRule(k) = 2
          /\ issue_data[k] = KeyRef("L")

\* the sprint lookup of the node the loop stands on found no such sprint
SprintAbsent ==
    /\ AtLastCall("lookup")
    /\ calls[Len(calls)].api_type = "sprint" /\ calls[Len(calls)].ok
    /\ \A i \in 1..Len(tracker.sprints) :
          tracker.sprints[i].name # CurIssue.value["sprint"]

ProjectOrBoardAbsent ==
    /\ AtLastCall("lookup") /\ calls[Len(calls)].ok
    /\ \/ /\ calls[Len(calls)].api_type = "project"
          /\ \A i \in 1..Len(tracker.projects) : tracker.projects[i].key # jira_project
       \/ /\ calls[Len(calls)].api_type = "board"
          /\ tracker.boards = <<>>

\* sprint-not-found is no error and the call goes on with None under the
\* sprint field; project-not-found and board-not-found raise
LookupOutcomes ==
    /\ SprintAbsent =>
          /\ err = None
          /\ pc = IF phase = "create" THEN "post" ELSE "put"
          /\ issue_data[cfg.custom_field_mapping["sprint"]] = NoneVal
    /\ ProjectOrBoardAbsent =>
          /\ pc = "raised"
          /\ err \in {"RuntimeError: project", "RuntimeError: board"}
    /\ \A i \in 1..Len(calls) : calls[i].site = "lookup" => calls[i].method = "get"

\* C10 as stated: sprint-not-found yields absence without raising and the
\* issue's creation call is still made; when the project key or the board is
\* not found an error is raised and no creation call is made for that issue.
C10_LookupErrors_Original ==
    /\ LookupOutcomes
    /\ err \in {"RuntimeError: project", "RuntimeError: board"} =>
          CallsOf("create", CurNode) = {}

\* C10, amended: ... an error is raised and no further call is made; no
\* creation call is made for that issue unless sprint is a post-creation
\* field, in which case the issue has been created and gets no update PUT.
C10_LookupErrors ==
    /\ LookupOutcomes
    /\ err \in {"RuntimeError: project", "RuntimeError: board"} =>
          /\ ProjectOrBoardAbsent
          /\ CallsOf("update", CurNode) = {}
          /\ CallsOf("create", CurNode) # {}
                <=> "sprint" \in cfg.post_creation_update_fields

C10_Witness ==
    /\ SprintAbsent
    /\ pc = "post"
    /\ created = 1
    /\ issue_data[cfg.custom_field_mapping["sprint"]] = NoneVal


\* the probe was answered with a status code other than 200
ProbeRefused ==
    probes # <<>> /\ probes[1].answered /\ probes[1].status_code # 200

\* C11: constructing the client makes exactly one probe call, a GET of the
\* "who am I" endpoint; if its response status is not 200, construction
\* fails with an error and that client never makes another call.
C11_CredentialProbe ==
    /\ Len(probes) = IF pc = "init" THEN 0 ELSE 1
    /\ \A i \in 1..Len(probes) :
          probes[i].method = "GET" /\ probes[i].api_type = "myself"
    /\ pc \in {"init", "ready"} => calls = <<>>
    /\ ProbeRefused =>
          /\ pc = "raised" /\ err = "RuntimeError: credentials"
          /\ calls = <<>> /\ stack = <<>>

\* a refused probe has ended a construction
C11_Witness ==
    ProbeRefused /\ probes[1].status_code = 204 /\ pc = "raised"


\* the calls the claim orders, and the place of each in a node's sequence
Steps == {"create", "update", "issuelinks", "parent"}

StepOrder(site) ==
    CASE site = "create" -> 1 [] site = "update" -> 2
      [] site = "issuelinks" -> 3 [] site = "parent" -> 4

\* p is a proper ancestor of q in the input tree
Above(p, q) == Len(p) < Len(q) /\ SubSeq(q, 1, Len(p)) = p

\* how many creation POSTs are among the first i calls
CreationsIn(i) == Cardinality({j \in 1..i : calls[j].site = "create"})

\* the key the creation POST of a node returned: the POST is among the
\* calls, and the tracker hands out its keys in the order of the POSTs
ReturnedKey(node) ==
    KeyOf(CreationsIn(CHOOSE j \in CallsOf("create", node) : TRUE))

\* the issue keys a call names
NamedKeys(c) ==
    IF c.site = "update" THEN {c.issue_key}
    ELSE IF c.site \in {"issuelinks", "parent"}
         THEN {c.link.inwardIssue, c.link.outwardIssue}
         ELSE {}

\* the keys of the creations that have not returned before call i
NotYetReturned(i) ==
    {KeyOf(n) : n \in (CreationsIn(i - 1) + 1)..(MaxNodes + 1)}

\* C12: the calls of every node occur in the order creation POST, update
\* PUT (addressed to the key that POST returned), `issuelinks` link calls,
\* parent link call, and only then the calls of its nested issues; and no
\* PUT or link call names the key of an issue whose creation POST has not
\* yet returned that key.
C12_CallOrder ==
    \A i \in 1..Len(calls) :
       LET c == calls[i]
       IN  c.site \in Steps =>
             /\ \A j \in 1..(i - 1) :
                   (calls[j].node = c.node /\ calls[j].site \in Steps) =>
                      \/ StepOrder(calls[j].site) < StepOrder(c.site)
                      \/ calls[j].site = "issuelinks" /\ c.site = "issuelinks"
             /\ c.site # "create" =>
                   /\ \E j \in 1..(i - 1) : j \in CallsOf("create", c.node)
                   /\ c.site = "update" => c.issue_key = ReturnedKey(c.node)
                   /\ c.site \in {"issuelinks", "parent"} =>
                         c.link.inwardIssue = ReturnedKey(c.node)
                   /\ c.site = "parent" =>
                         c.link.outwardIssue = ReturnedKey(Parent(c.node))
             /\ \A j \in 1..Len(calls) : Above(calls[j].node, c.node) => j < i
             /\ Len(c.node) > 1 =>
                   \E j \in 1..(i - 1) : j \in CallsOf("create", Parent(c.node))
             /\ NamedKeys(c) \cap NotYetReturned(i) = {}

\* one node has had its PUT, its `issuelinks` link and its parent link, and
\* the creation of a nested issue of it has followed
C12_Witness ==
    \E i \in 1..Len(calls) :
       LET p == Parent(calls[i].node)
       IN  /\ calls[i].site = "create" /\ Len(calls[i].node) > 1
           /\ CallsOf("update", p) # {}
           /\ CallsOf("issuelinks", p) # {}
           /\ CallsOf("parent", p) # {}

=============================================================================
